---- MODULE Spec2Model ----
(***************************************************************************)
(* FHIR Patient Manager (src/fhripatient.js) together with the update      *)
(* function of src/README.md (updateSelectedPatient).                      *)
(*                                                                         *)
(* The page is a single-threaded JavaScript program.  Every operation is   *)
(* an async function: its synchronous prefix runs inside the event handler *)
(* that invoked it, up to `await fetch(...)`; the rest runs in a later     *)
(* turn of the event loop, when the response has arrived.  Between the two *)
(* any other handler may run.  The model has one action for the prefix of  *)
(* each operation and one action (Resolve) for the continuation.  The      *)
(* second await of a handler (`await response.json()` / `.text()`) reads   *)
(* and writes only locals of the handler, so the continuation is modelled  *)
(* at the turn in which the body has been read.                            *)
(*                                                                         *)
(* Strings that the code trims or matches against a regular expression are *)
(* sequences of one-character strings.  A birth date is a record (kind,    *)
(* day): the text of the date input and, when it is a calendar date, the   *)
(* number of the day.  Time is counted in hours (UTC).                     *)
(***************************************************************************)
EXTENDS Integers, Sequences, FiniteSets, Bags, TLC

(***************************************************************************)
(* Bounds of the model.                                                    *)
(***************************************************************************)
\* requests that may be unresolved at the same time
MaxInFlight == 2
\* calendar days 0..MaxDay are the days of the model's clock and birth dates
MaxDay == 2

HoursPerDay == 24

(***************************************************************************)
(* Strings.                                                                *)
(***************************************************************************)
Whitespace == {" "}

RECURSIVE trimStart(_)
trimStart(s) ==
  IF s = <<>> THEN <<>>
  ELSE IF Head(s) \in Whitespace THEN trimStart(Tail(s)) ELSE s

RECURSIVE trimEnd(_)
trimEnd(s) ==
  IF s = <<>> THEN <<>>
  ELSE IF s[Len(s)] \in Whitespace THEN trimEnd(SubSeq(s, 1, Len(s) - 1)) ELSE s

\* String.prototype.trim
trim(s) == trimEnd(trimStart(s))

\* s.replace(/[\s\-\(\)]/g, "")
stripPhoneSeparators(s) ==
  SelectSeq(s, LAMBDA c : c \notin (Whitespace \cup {"-", "(", ")"}))

Digits == {"0", "1", "2", "3", "4", "5", "6", "7", "8", "9"}

\* the test of the phone with any number of digits: /^[\+]?[1-9][\d]*$/
phoneRegexTestAnyLength(s) ==
  LET d == IF s # <<>> /\ Head(s) = "+" THEN Tail(s) ELSE s
  IN  /\ d # <<>>
      /\ Head(d) \in (Digits \ {"0"})
      /\ \A i \in 1..Len(d) : d[i] \in Digits

\* /^[\+]?[1-9][\d]{0,15}$/.test(s)
phoneRegexTest(s) ==
  LET d == IF s # <<>> /\ Head(s) = "+" THEN Tail(s) ELSE s
  IN  /\ d # <<>>
      /\ Head(d) \in (Digits \ {"0"})
      /\ Len(d) <= 16
      /\ \A i \in 1..Len(d) : d[i] \in Digits

\* the test of the email without the dot: /^[^\s@]+@[^\s@]+$/
emailRegexTestNoDot(s) ==
  \E i \in 1..Len(s) :
     /\ s[i] = "@"
     /\ 1 < i
     /\ i < Len(s)
     /\ \A k \in 1..Len(s) : k # i => s[k] \notin (Whitespace \cup {"@"})

\* /^[^\s@]+@[^\s@]+\.[^\s@]+$/.test(s)
emailRegexTest(s) ==
  \E i \in 1..Len(s) : \E j \in 1..Len(s) :
     /\ s[i] = "@"
     /\ s[j] = "."
     /\ 1 < i
     /\ i + 1 < j
     /\ j < Len(s)
     /\ \A k \in 1..Len(s) : k # i => s[k] \notin (Whitespace \cup {"@"})

(***************************************************************************)
(* Dates.  The date input holds no text, blanks, text that is no date, or  *)
(* a calendar date YYYY-MM-DD (day number `day`).                          *)
(***************************************************************************)
EmptyDate == [kind |-> "empty", day |-> 0]
SpacesDate == [kind |-> "spaces", day |-> 0]
InvalidDate == [kind |-> "invalid", day |-> 0]
IsoDate(d) == [kind |-> "date", day |-> d]

\* birthDate.trim() is the empty string
dateTrimIsEmpty(b) == b.kind \in {"empty", "spaces"}

\* the string is truthy (not "")
dateTruthy(b) == b.kind # "empty"

\* isNaN(new Date(birthDate).getTime())
dateIsNaN(b) == b.kind # "date"

\* new Date("YYYY-MM-DD").getTime(): midnight UTC of that day, in hours
dateGetTime(b) == b.day * HoursPerDay

\* the calendar date of the caller: the clock is (utc, tz), tz the offset of
\* the caller's zone from UTC in hours
localDay(clock) == (clock.utc + clock.tz) \div HoursPerDay

(***************************************************************************)
(* JSON values and the resource builder.                                   *)
(***************************************************************************)
\* JavaScript null
Null == [kind |-> "null"]

RequiredFirstName == "First name cannot be null or empty"
RequiredLastName == "Last name cannot be null or empty"
RequiredGender == "Gender cannot be null or empty"
RequiredBirthDate == "Birth date cannot be null or empty"
InvalidBirthDate == "Birth date must be a valid date"
FutureBirthDate == "Birth date cannot be in the future"
InvalidEmail == "Email must be in valid format (example@domain.com)"
InvalidPhone == "Phone number must contain only digits and valid formatting characters"

\* the entries of patient.telecom: phone first, then email
telecomOf(phone, email) ==
  (IF phone # <<>> THEN << [system |-> "phone", value |-> phone, use |-> "home"] >> ELSE <<>>)
  \o
  (IF email # <<>> THEN << [system |-> "email", value |-> email, use |-> "home"] >> ELSE <<>>)

\* the object of the builder with an id of its own making
patientOfWithId(raw) ==
  [ resourceType |-> "Patient",
    id |-> raw.lastName,
    active |-> TRUE,
    name |-> << [use |-> "official", family |-> raw.lastName, given |-> <<raw.firstName>>] >>,
    gender |-> raw.gender,
    telecom |-> telecomOf(raw.phone, raw.email) ]
  @@ (IF dateTruthy(raw.birthDate) THEN [birthDate |-> raw.birthDate] ELSE <<>>)
  @@ (IF raw.address # <<>>
        THEN [address |-> << [use |-> "home", type |-> "both", text |-> raw.address] >>]
        ELSE <<>>)

\* the object literal of the builder and the properties added to it
patientOf(raw) ==
  [ resourceType |-> "Patient",
    active |-> TRUE,
    name |-> << [use |-> "official", family |-> raw.lastName, given |-> <<raw.firstName>>] >>,
    gender |-> raw.gender,
    telecom |-> telecomOf(raw.phone, raw.email) ]
  @@ (IF dateTruthy(raw.birthDate) THEN [birthDate |-> raw.birthDate] ELSE <<>>)
  @@ (IF raw.address # <<>>
        THEN [address |-> << [use |-> "home", type |-> "both", text |-> raw.address] >>]
        ELSE <<>>)

\* createPatientResource() without its check of the gender
createPatientResourceNoGenderCheck(raw, clock) ==
  IF trim(raw.firstName) = <<>> THEN [error |-> RequiredFirstName, patient |-> Null]
  ELSE IF trim(raw.lastName) = <<>> THEN [error |-> RequiredLastName, patient |-> Null]
  ELSE IF dateTrimIsEmpty(raw.birthDate) THEN [error |-> RequiredBirthDate, patient |-> Null]
  ELSE IF dateTruthy(raw.birthDate) /\ dateIsNaN(raw.birthDate)
    THEN [error |-> InvalidBirthDate, patient |-> Null]
  ELSE IF dateTruthy(raw.birthDate) /\ dateGetTime(raw.birthDate) > clock.utc
    THEN [error |-> FutureBirthDate, patient |-> Null]
  ELSE IF trim(raw.email) # <<>> /\ ~emailRegexTest(trim(raw.email))
    THEN [error |-> InvalidEmail, patient |-> Null]
  ELSE IF trim(raw.phone) # <<>> /\ ~phoneRegexTest(stripPhoneSeparators(raw.phone))
    THEN [error |-> InvalidPhone, patient |-> Null]
  ELSE [error |-> "", patient |-> patientOf(raw)]

\* createPatientResource() checking the phone before the email
createPatientResourcePhoneFirst(raw, clock) ==
  IF trim(raw.firstName) = <<>> THEN [error |-> RequiredFirstName, patient |-> Null]
  ELSE IF trim(raw.lastName) = <<>> THEN [error |-> RequiredLastName, patient |-> Null]
  ELSE IF trim(raw.gender) = <<>> THEN [error |-> RequiredGender, patient |-> Null]
  ELSE IF dateTrimIsEmpty(raw.birthDate) THEN [error |-> RequiredBirthDate, patient |-> Null]
  ELSE IF dateTruthy(raw.birthDate) /\ dateIsNaN(raw.birthDate)
    THEN [error |-> InvalidBirthDate, patient |-> Null]
  ELSE IF dateTruthy(raw.birthDate) /\ dateGetTime(raw.birthDate) > clock.utc
    THEN [error |-> FutureBirthDate, patient |-> Null]
  ELSE IF trim(raw.phone) # <<>> /\ ~phoneRegexTest(stripPhoneSeparators(raw.phone))
    THEN [error |-> InvalidPhone, patient |-> Null]
  ELSE IF trim(raw.email) # <<>> /\ ~emailRegexTest(trim(raw.email))
    THEN [error |-> InvalidEmail, patient |-> Null]
  ELSE [error |-> "", patient |-> patientOf(raw)]

\* createPatientResource(): the message given to showError ("" when none) and
\* the value returned (Null when a check fails); clock is the time of the call
createPatientResource(raw, clock) ==
  IF trim(raw.firstName) = <<>> THEN [error |-> RequiredFirstName, patient |-> Null]
  ELSE IF trim(raw.lastName) = <<>> THEN [error |-> RequiredLastName, patient |-> Null]
  ELSE IF trim(raw.gender) = <<>> THEN [error |-> RequiredGender, patient |-> Null]
  ELSE IF dateTrimIsEmpty(raw.birthDate) THEN [error |-> RequiredBirthDate, patient |-> Null]
  ELSE IF dateTruthy(raw.birthDate) /\ dateIsNaN(raw.birthDate)
    THEN [error |-> InvalidBirthDate, patient |-> Null]
  ELSE IF dateTruthy(raw.birthDate) /\ dateGetTime(raw.birthDate) > clock.utc
    THEN [error |-> FutureBirthDate, patient |-> Null]
  ELSE IF trim(raw.email) # <<>> /\ ~emailRegexTest(trim(raw.email))
    THEN [error |-> InvalidEmail, patient |-> Null]
  ELSE IF trim(raw.phone) # <<>> /\ ~phoneRegexTest(stripPhoneSeparators(raw.phone))
    THEN [error |-> InvalidPhone, patient |-> Null]
  ELSE [error |-> "", patient |-> patientOf(raw)]

(***************************************************************************)
(* The environment: what the user enters and what the server answers.      *)
(***************************************************************************)
\* more entries than this are not returned in a search bundle
MaxEntries == 1

Ids == { <<"1">>, <<"2">> }

\* the text of an id or search input: empty, blank, or an id
IdInputs == { <<>>, <<" ">> } \cup Ids

\* a parsed Patient resource of a response; given is the shape of
\* name[0].given: an array as FHIR has it, or a plain string
ServerPatients ==
  [kind : {"Patient"}, id : Ids, given : {"array"}]
  \cup { [kind |-> "Patient", id |-> <<"1">>, given |-> "string"] }

\* a parsed search bundle with `entries` entries
Bundles == { [kind |-> "Bundle", entries |-> n] : n \in 0..MaxEntries }

\* a body that response.json() rejects (no JSON; empty)
Unparseable == [kind |-> "unparseable"]

\* status 0: fetch itself rejects (network error)
NetworkError == [status |-> 0, body |-> Unparseable]

responseOk(response) == response.status >= 200 /\ response.status <= 299

\* the answers the server may give to an operation's request
Bodies(op) ==
  IF op = "delete" THEN {Unparseable}
  ELSE IF op = "search" THEN {Unparseable, Null} \cup Bundles
  ELSE {Unparseable, Null} \cup ServerPatients

Responses(op) ==
  {NetworkError}
  \cup { [status |-> st, body |-> Unparseable] : st \in {204, 404, 500} }
  \cup { [status |-> 200, body |-> b] : b \in Bodies(op) }

\* getPatientName(patient) throws a TypeError: patient is null, or
\* name[0].given has no join method
getPatientNameThrows(patient) ==
  IF patient = Null THEN TRUE
  ELSE IF patient.kind = "Patient" THEN patient.given = "string"
  ELSE FALSE

\* populateFormWithPatient(patient) throws a TypeError: patient is null
populateFormWithPatientThrows(patient) == patient = Null

(***************************************************************************)
(* State.                                                                  *)
(***************************************************************************)
VARIABLES
  selectedPatient,  \* this.selectedPatient: Null or a parsed resource
  submitButton,     \* the handler of the submit button: "create" | "update"
  pending,          \* the bag of invocations suspended at `await fetch`
  last,             \* the invocation that ended last, as the sink saw it
  baseUrl,          \* this.baseUrl
  deleted           \* history: the ids the server has confirmed deleted and
                    \* that no loadPatientForUpdate has fetched since

vars == <<selectedPatient, submitButton, pending, last, baseUrl, deleted>>

\* the literal of the constructor, "https://fhir-bootcamp.medblocks.com/fhir/":
\* "h" stands for the text before its last character, the slash
DefaultBaseUrl == <<"h", "/">>

\* urlInput.value.replace(/\/$/, ""): one slash at the end is removed
stripTrailingSlash(url) ==
  IF url # <<>> /\ url[Len(url)] = "/" THEN SubSeq(url, 1, Len(url) - 1) ELSE url

\* this.baseUrl after updateServerUrl(): value is the text of the input
\* fhirServerUrl, <<>> when it is empty or the page has no such input
updateServerUrl(url, value) ==
  IF value # <<>> THEN stripTrailingSlash(value) ELSE url

\* the suspended invocations, each once
InFlight == BagToSet(pending)

Init ==
  /\ selectedPatient = Null
  /\ submitButton = "create"
  /\ pending = EmptyBag
  /\ last = [op |-> "init", outcome |-> "none", requests |-> 0, reports |-> <<>>]
  /\ baseUrl = updateServerUrl(DefaultBaseUrl, <<>>)
  /\ deleted = {}

(***************************************************************************)
(* Steps shared by the operations.                                         *)
(***************************************************************************)
\* the invocation ends in this turn: what the sink was told (the severities
\* of its calls, in order) and how many requests the invocation issued
Finish(op, outcome, requests, reports) ==
  last' = [op |-> op, outcome |-> outcome, requests |-> requests, reports |-> reports]

\* `await fetch(...)`: the request leaves and the invocation is suspended
\* with its locals
Fetch(op, request, locals, reports) ==
  /\ BagCardinality(pending) < MaxInFlight
  /\ pending' = pending (+) SetToBag({ [op |-> op,
                                        request |-> [url |-> baseUrl] @@ request,
                                        reports |-> reports] @@ locals })

\* an invocation that ends before any request: nothing but the sink changes
EndEarly(op, outcome, reports) ==
  /\ Finish(op, outcome, 0, reports)
  /\ UNCHANGED <<selectedPatient, submitButton, pending, baseUrl>>

\* an invocation that issues its request and is suspended
Suspend(op, request, locals, reports) ==
  /\ Fetch(op, request, locals, reports)
  /\ UNCHANGED <<selectedPatient, submitButton, last, baseUrl>>

(***************************************************************************)
(* The operations: the synchronous prefix of each handler.                 *)
(* updateSelectedPatient holds the selection of the time of its call in    *)
(* its const selectedPatient (`selected` in the locals).  createPatient    *)
(* and deletePatient keep no such local; where `history` is TRUE the model *)
(* notes the selection of the time of the call with them all the same, so  *)
(* that the end of an invocation can be compared with its beginning.       *)
(***************************************************************************)
\* what the model notes at the call of createPatient and deletePatient
atCall(history) == IF history THEN [selected |-> selectedPatient] ELSE <<>>

\* createPatient() up to `await fetch`
CreatePatient(raw, clock, history) ==
  LET built == createPatientResource(raw, clock)
  IN  IF built.patient = Null
        THEN EndEarly("create", "validation", <<"error">>)
        ELSE Suspend("create",
                     [method |-> "POST", path |-> <<"Patient">>, body |-> built.patient],
                     atCall(history),
                     <<"info">>)

\* the body of the PUT: the built resource with the id of the selection
withId(patient, id) == [id |-> id] @@ patient

\* updateSelectedPatient() building the resource before it looks at the
\* selection
UpdateSelectedPatientBuildsFirst(raw, clock) ==
  LET built == createPatientResource(raw, clock)
  IN  IF built.patient = Null
        THEN EndEarly("update", "validation", <<"error">>)
        ELSE IF selectedPatient = Null
          THEN EndEarly("update", "precondition", <<"error">>)
          ELSE Suspend("update",
                       [method |-> "PUT",
                        path |-> <<"Patient", selectedPatient.id>>,
                        body |-> withId(built.patient, selectedPatient.id)],
                       [selected |-> selectedPatient],
                       <<"info">>)

\* updateSelectedPatient() up to `await fetch`
UpdateSelectedPatient(raw, clock) ==
  IF selectedPatient = Null
    THEN EndEarly("update", "precondition", <<"error">>)
    ELSE LET built == createPatientResource(raw, clock)
         IN  IF built.patient = Null
               THEN EndEarly("update", "validation", <<"error">>)
               ELSE Suspend("update",
                            [method |-> "PUT",
                             path |-> <<"Patient", selectedPatient.id>>,
                             body |-> withId(built.patient, selectedPatient.id)],
                            [selected |-> selectedPatient],
                            <<"info">>)

\* a click on the submit button: the onclick that updateSubmitButton installed
\* (before the first call of it, the submit listener of the form)
Submit(raw, clock, history) ==
  IF submitButton = "update"
    THEN UpdateSelectedPatient(raw, clock)
    ELSE CreatePatient(raw, clock, history)

\* searchPatients() up to `await fetch`
SearchPatients(searchTerm) ==
  IF trim(searchTerm) = <<>>
    THEN EndEarly("search", "precondition", <<"error">>)
    ELSE Suspend("search",
                 [method |-> "GET", path |-> <<"Patient?name=", searchTerm>>, body |-> Null],
                 <<>>,
                 <<"info">>)

\* getPatientById() up to `await fetch`
GetPatientById(patientId) ==
  IF trim(patientId) = <<>>
    THEN EndEarly("get", "precondition", <<"error">>)
    ELSE Suspend("get",
                 [method |-> "GET", path |-> <<"Patient", patientId>>, body |-> Null],
                 <<>>,
                 <<"info">>)

\* loadPatientForUpdate() up to `await fetch`
LoadPatientForUpdate(patientId) ==
  IF trim(patientId) = <<>>
    THEN EndEarly("load", "precondition", <<"error">>)
    ELSE Suspend("load",
                 [method |-> "GET", path |-> <<"Patient", patientId>>, body |-> Null],
                 <<>>,
                 <<"info">>)

\* deletePatient() up to `await fetch`; confirmDelete is the answer to confirm()
DeletePatient(patientId, confirmDelete, history) ==
  IF trim(patientId) = <<>>
    THEN EndEarly("delete", "precondition", <<"error">>)
    ELSE IF ~confirmDelete
      THEN EndEarly("delete", "cancelled", <<"info">>)
      ELSE Suspend("delete",
                   [method |-> "DELETE", path |-> <<"Patient", patientId>>, body |-> Null],
                   atCall(history),
                   <<"info">>)

\* clearForm(), the form being present: the button is reset, then
\* setSelectedPatient(null) assigns null and throws in its log call
\* (getPatientName(null)), so "Form cleared" is never reported and the
\* TypeError leaves clearForm
ClearForm ==
  /\ submitButton' = "create"
  /\ selectedPatient' = Null
  /\ Finish("clear", "threw", 0, <<>>)
  /\ UNCHANGED <<pending, baseUrl>>

(***************************************************************************)
(* The continuations: the handler from the response to its end.            *)
(***************************************************************************)
\* the invocation `task` ends with this outcome
Done(task, outcome, reports) ==
  Finish(task.op, outcome, 1, task.reports \o reports)

\* the catch block: showError("Failed to ...") and nothing else
Caught(task) ==
  /\ Done(task, "failed", <<"error">>)
  /\ UNCHANGED <<selectedPatient, submitButton>>

\* the 404 branch: showError("Patient with ID ... not found")
NotFound(task) ==
  /\ Done(task, "notfound", <<"error">>)
  /\ UNCHANGED <<selectedPatient, submitButton>>

\* setSelectedPatient(patient) followed by updateSubmitButton("update")
selectForUpdate(patient) ==
  /\ selectedPatient' = patient
  /\ submitButton' = "update"

\* clearSelectedPatient()
clearSelectedPatient ==
  /\ submitButton' = "create"
  /\ selectedPatient' = Null

\* createPatient() from the response on
CreateResolve(task, response) ==
  IF ~responseOk(response)
       \/ response.body = Unparseable
       \/ getPatientNameThrows(response.body)
    THEN Caught(task)
    ELSE /\ selectForUpdate(response.body)
         /\ Done(task, "success", <<"success", "info">>)

\* updateSelectedPatient() from the response on, selecting again the
\* resource it held at the call instead of the one returned
UpdateResolveKeepsOld(task, response) ==
  IF ~responseOk(response)
       \/ response.body = Unparseable
       \/ getPatientNameThrows(response.body)
    THEN Caught(task)
    ELSE /\ selectedPatient' = task.selected
         /\ UNCHANGED submitButton
         /\ Done(task, "success", <<"info", "success">>)

\* updateSelectedPatient() from the response on: the button is left alone
UpdateResolve(task, response) ==
  IF ~responseOk(response)
       \/ response.body = Unparseable
       \/ getPatientNameThrows(response.body)
    THEN Caught(task)
    ELSE /\ selectedPatient' = response.body
         /\ UNCHANGED submitButton
         /\ Done(task, "success", <<"info", "success">>)

\* searchPatients() from the response on: an empty bundle is shown without
\* any call of log, showSuccess or showError
SearchResolve(task, response) ==
  IF ~responseOk(response) \/ response.body = Unparseable \/ response.body = Null
    THEN Caught(task)
    ELSE /\ Done(task, "success", IF response.body.entries = 0 THEN <<>> ELSE <<"info">>)
         /\ UNCHANGED <<selectedPatient, submitButton>>

\* getPatientById() from the response on, selecting the patient it found
GetResolveSelects(task, response) ==
  IF responseOk(response)
    THEN IF response.body = Unparseable \/ getPatientNameThrows(response.body)
           THEN Caught(task)
           ELSE /\ Done(task, "success", <<"success", "info">>)
                /\ selectedPatient' = response.body
                /\ UNCHANGED submitButton
    ELSE IF response.status = 404 THEN NotFound(task) ELSE Caught(task)

\* getPatientById() from the response on
GetResolve(task, response) ==
  IF responseOk(response)
    THEN IF response.body = Unparseable \/ getPatientNameThrows(response.body)
           THEN Caught(task)
           ELSE /\ Done(task, "success", <<"success", "info">>)
                /\ UNCHANGED <<selectedPatient, submitButton>>
    ELSE IF response.status = 404 THEN NotFound(task) ELSE Caught(task)

\* loadPatientForUpdate() from the response on: setSelectedPatient assigns
\* before its log call evaluates getPatientName(patient)
LoadResolve(task, response) ==
  IF responseOk(response)
    THEN IF response.body = Unparseable \/ populateFormWithPatientThrows(response.body)
           THEN Caught(task)
           ELSE IF getPatientNameThrows(response.body)
             THEN /\ selectedPatient' = response.body
                  /\ UNCHANGED submitButton
                  /\ Done(task, "failed", <<"error">>)
             ELSE /\ selectForUpdate(response.body)
                  /\ Done(task, "success", <<"info", "success">>)
    ELSE IF response.status = 404 THEN NotFound(task) ELSE Caught(task)

\* deletePatient() from the response on: clearSelectedPatient logs the name
\* of the selected patient before it changes anything
DeleteResolve(task, response) ==
  IF responseOk(response) \/ response.status = 204
    THEN IF selectedPatient # Null /\ getPatientNameThrows(selectedPatient)
           THEN /\ Done(task, "failed", <<"success", "error">>)
                /\ UNCHANGED <<selectedPatient, submitButton>>
           ELSE /\ clearSelectedPatient
                /\ Done(task, "success",
                        IF selectedPatient # Null THEN <<"success", "info">> ELSE <<"success">>)
    ELSE IF response.status = 404 THEN NotFound(task) ELSE Caught(task)

\* the response to the request of `task` arrives and its handler runs on
Resolve(task, response) ==
  /\ BagIn(task, pending)
  /\ response \in Responses(task.op)
  /\     CASE task.op = "create" -> CreateResolve(task, response)
           [] task.op = "update" -> UpdateResolve(task, response)
           [] task.op = "search" -> SearchResolve(task, response)
           [] task.op = "get" -> GetResolve(task, response)
           [] task.op = "load" -> LoadResolve(task, response)
           [] task.op = "delete" -> DeleteResolve(task, response)
  /\ pending' = pending (-) SetToBag({task})
  /\ UNCHANGED baseUrl

(***************************************************************************)
(* The inputs of the session and its specification.                        *)
(***************************************************************************)
\* the clock of the session: noon UTC of day 1, in a zone at UTC
SessionClock == [utc |-> HoursPerDay + 12, tz |-> 0]

ValidRaw ==
  [ firstName |-> <<"A">>, lastName |-> <<"L">>, gender |-> <<"f">>,
    birthDate |-> IsoDate(0), phone |-> <<>>, email |-> <<>>, address |-> <<>> ]

\* the field values of the form when it is submitted
SessionRaws ==
  { ValidRaw,
    [ValidRaw EXCEPT !.firstName = <<>>],
    [ValidRaw EXCEPT !.firstName = <<" ">>],
    [ValidRaw EXCEPT !.lastName = <<>>],
    [ValidRaw EXCEPT !.lastName = <<" ", " ">>],
    [ValidRaw EXCEPT !.gender = <<>>],
    [ValidRaw EXCEPT !.gender = <<" ">>],
    [ValidRaw EXCEPT !.birthDate = EmptyDate],
    [ValidRaw EXCEPT !.birthDate = SpacesDate],
    [ValidRaw EXCEPT !.birthDate = IsoDate(MaxDay)],
    [ValidRaw EXCEPT !.lastName = <<" ">>, !.gender = <<" ">>, !.phone = <<"0">>] }

\* the text of the search input
SearchInputs == { <<>>, <<" ">>, <<"1">> }

\* the ids confirmed deleted after `task` was answered by `response`: a
\* delete answered 2xx adds its id, a load that succeeds removes its id
noteDeleted(history, task, response) ==
  IF ~history THEN deleted
  ELSE IF task.op = "delete" /\ responseOk(response)
    THEN deleted \cup {task.request.path[2]}
  ELSE IF task.op = "load" /\ last'.outcome = "success"
    THEN deleted \ {response.body.id}
  ELSE deleted

Next(history) ==
  \/ /\ \/ \E raw \in SessionRaws : CreatePatient(raw, SessionClock, history)
        \/ \E raw \in SessionRaws : UpdateSelectedPatient(raw, SessionClock)
        \/ \E raw \in SessionRaws : Submit(raw, SessionClock, history)
        \/ \E searchTerm \in SearchInputs : SearchPatients(searchTerm)
        \/ \E patientId \in IdInputs : GetPatientById(patientId)
        \/ \E patientId \in IdInputs : LoadPatientForUpdate(patientId)
        \/ \E patientId \in IdInputs : \E confirmDelete \in BOOLEAN :
             DeletePatient(patientId, confirmDelete, history)
        \/ ClearForm
     /\ UNCHANGED deleted
  \/ \E task \in InFlight : \E response \in Responses(task.op) :
       /\ Resolve(task, response)
       /\ deleted' = noteDeleted(history, task, response)

\* the session
Spec == Init /\ [][Next(FALSE)]_vars

\* the session, the selection of the time of each call noted
SpecCalls == Init /\ [][Next(TRUE)]_vars

(***************************************************************************)
(* The builder on its own: createPatientResource applied to field values   *)
(* at a time of day and in a time zone.                                    *)
(***************************************************************************)
\* offsets of the caller's zone from UTC, in hours
TzOffsets == (0 - 12)..14

\* every hour of the days 0..MaxDay, in every zone
BuildClocks == [utc : 0..(HoursPerDay * (MaxDay + 1) - 1), tz : TzOffsets]

\* field values that differ from ValidRaw in the birth date
BuildRaws == { [ValidRaw EXCEPT !.birthDate = b] :
                 b \in {EmptyDate, InvalidDate} \cup { IsoDate(d) : d \in 0..MaxDay } }

\* the first call of createPatientResource() and what it returned; the
\* builder reads nothing but the fields and the clock, so one call shows it
Build(raw, clock) ==
  /\ last.op = "init"
  /\ last' = [op |-> "build", raw |-> raw, clock |-> clock,
              result |-> createPatientResource(raw, clock)]
  /\ UNCHANGED <<selectedPatient, submitButton, pending, baseUrl, deleted>>

NextBuild == \E raw \in BuildRaws : \E clock \in BuildClocks : Build(raw, clock)

SpecBuild == Init /\ [][NextBuild]_vars

(***************************************************************************)
(* Properties.                                                             *)
(***************************************************************************)
\* s is empty or holds only whitespace
IsBlank(s) == \A i \in 1..Len(s) : s[i] \in Whitespace

\* the outcomes that are failures of an operation
FailureOutcomes == {"validation", "precondition", "notfound", "failed"}

\* C1: whenever create, updateSelected or deleteSelected ends in failure, the
\* selection is the one that held when the operation was invoked: at the end
\* of a failing continuation it equals the selection the invocation saw
\* when it was called, and an invocation that fails before its request
\* leaves it alone.
NoPartialMutation ==
  [][ /\ \A task \in InFlight : \A response \in Responses(task.op) :
           ( /\ task.op \in {"create", "update", "delete"}
             /\ Resolve(task, response)
             /\ last'.outcome \in FailureOutcomes )
           => selectedPatient' = task.selected
      /\ ( /\ last' # last
           /\ last'.op \in {"create", "update", "delete"}
           /\ last'.requests = 0
           /\ last'.outcome \in FailureOutcomes )
         => selectedPatient' = selectedPatient ]_vars

\* C2: the selection changes only when a create, a loadForUpdate or an
\* updateSelected succeeds (it becomes the resource of the response), when a
\* delete succeeds (it becomes none) or when the form is cleared (none).
SelectionTransitions ==
  [][ selectedPatient' # selectedPatient =>
        \/ /\ ClearForm
           /\ selectedPatient' = Null
        \/ \E task \in InFlight : \E response \in Responses(task.op) :
             /\ Resolve(task, response)
             /\ last'.outcome = "success"
             /\ \/ /\ task.op \in {"create", "load", "update"}
                   /\ selectedPatient' = response.body
                \/ /\ task.op = "delete"
                   /\ selectedPatient' = Null ]_vars

\* C3: updateSelected called with no patient selected ends with the
\* precondition failure as its only report, whatever the field values, issues
\* no request and leaves the selection none.
UpdateWithoutSelection ==
  [][ \A raw \in SessionRaws :
        (selectedPatient = Null /\ UpdateSelectedPatient(raw, SessionClock))
        => /\ last' = [op |-> "update", outcome |-> "precondition",
                       requests |-> 0, reports |-> <<"error">>]
           /\ pending' = pending
           /\ selectedPatient' = Null ]_vars

\* C3 witness: an update has just been refused for want of a selection
UpdateWithoutSelectionSeen ==
  /\ last.op = "update"
  /\ last.outcome = "precondition"
  /\ last.requests = 0
  /\ selectedPatient = Null
  /\ pending = EmptyBag

\* C4: no invocation issues more than one request, and a step taken while a
\* request stays unresolved neither issues a request nor changes the
\* selection.
NoOverlap ==
  [][ /\ last'.requests <= 1
      /\ ( \/ BagCardinality(pending) >= 2
           \/ /\ pending # EmptyBag
              /\ BagCardinality(pending') >= BagCardinality(pending) )
         => /\ BagCardinality(pending') <= BagCardinality(pending)
            /\ selectedPatient' = selectedPatient ]_vars

\* C5: the submit button routes to updateSelected exactly when a patient is
\* selected.
SubmitFollowsSelection ==
  (submitButton = "update") <=> (selectedPatient # Null)

\* C6: a delete answered 2xx sets the selection to none, whatever id it
\* deleted; a delete answered otherwise leaves the selection as it was.
DeleteClearsSelection ==
  [][ \A task \in InFlight : \A response \in Responses(task.op) :
        (task.op = "delete" /\ Resolve(task, response))
        => IF responseOk(response)
             THEN selectedPatient' = Null
             ELSE selectedPatient' = selectedPatient ]_vars

\* C7: no step of fetchById or searchByName changes the selection, neither
\* the call (blank id or term included) nor the handling of the response,
\* whatever the response is: a step that changes the selection is no step
\* of these two operations.
ReadsKeepSelection ==
  [][ selectedPatient' # selectedPatient =>
        /\ \A input \in IdInputs : ~GetPatientById(input)
        /\ \A input \in SearchInputs : ~SearchPatients(input)
        /\ \A task \in InFlight : \A response \in Responses(task.op) :
             task.op \in {"get", "search"} => ~Resolve(task, response) ]_vars

\* C7 witness: a fetchById has succeeded and nothing is selected
ReadSucceededUnselected ==
  /\ last.op = "get"
  /\ last.outcome = "success"
  /\ selectedPatient = Null

\* one of the required fields is blank
AnyRequiredBlank(raw) ==
  \/ IsBlank(raw.firstName)
  \/ IsBlank(raw.lastName)
  \/ IsBlank(raw.gender)
  \/ raw.birthDate.kind \in {"empty", "spaces"}

\* the field values a built resource was made from, as far as C8 reads them
requiredOf(body) ==
  [ firstName |-> body.name[1].given[1], lastName |-> body.name[1].family,
    gender |-> body.gender,
    birthDate |-> IF "birthDate" \in DOMAIN body THEN body.birthDate ELSE EmptyDate ]

\* C8: when firstName, lastName, gender or birthDate is blank, the builder
\* returns a failure, and a create or an updateSelected with these fields
\* issues no request: no request in flight was built from such fields, and
\* an invocation refused by validation issued none.
BlankRequiredRejected ==
  /\ \A raw \in SessionRaws :
       AnyRequiredBlank(raw)
       => /\ createPatientResource(raw, SessionClock).patient = Null
          /\ createPatientResource(raw, SessionClock).error # ""
  /\ \A task \in InFlight :
       task.op \in {"create", "update"} => ~AnyRequiredBlank(requiredOf(task.request.body))
  /\ last.outcome = "validation" => last.requests = 0

\* C8 witness: a create has been refused by validation, with a patient
\* selected (so an update with the same fields is refused by validation too)
ValidationRefused ==
  /\ last.op \in {"create", "update"}
  /\ last.outcome = "validation"
  /\ last.requests = 0
  /\ selectedPatient # Null

\* C9: with the other fields valid, the builder fails with the future-date
\* error for a birth date after the caller's calendar date and succeeds for
\* a birth date equal to it, at any hour and in any zone.
BirthDateAgainstToday ==
  (last.op = "build" /\ last.raw.birthDate.kind = "date")
  => /\ last.raw.birthDate.day > localDay(last.clock)
        => last.result.error = FutureBirthDate
     /\ last.raw.birthDate.day = localDay(last.clock)
        => last.result.patient # Null

\* the fields of a record but its id
withoutId(patient) == [f \in DOMAIN patient \ {"id"} |-> patient[f]]

\* the field values of the session that the builder accepts
AcceptedSessionRaws ==
  { raw \in SessionRaws : createPatientResource(raw, SessionClock).patient # Null }

\* the request part of C10: a valid updateSelected with a patient selected
\* issues one PUT to /Patient/{id of the selection} whose body is the built
\* resource with that id
UpdateIssuesPut ==
  \A raw \in AcceptedSessionRaws :
    ( /\ selectedPatient # Null
      /\ BagCardinality(pending') >= BagCardinality(pending)
      /\ UpdateSelectedPatient(raw, SessionClock) )
    => \E task \in BagToSet(pending') :
         /\ pending' = pending (+) SetToBag({task})
         /\ task.op = "update"
         /\ task.request.method = "PUT"
         /\ task.request.path = <<"Patient", selectedPatient.id>>
         /\ task.request.body.id = selectedPatient.id
         /\ withoutId(task.request.body) = createPatientResource(raw, SessionClock).patient
         /\ selectedPatient' = selectedPatient

\* C10 as stated: a valid updateSelected with a patient selected issues one
\* PUT to /Patient/{id of the selection} whose body is the built resource
\* with that id, and on every 2xx response the selection becomes the
\* resource of the response.
UpdateReplacesOnAny2xx ==
  [][ /\ UpdateIssuesPut
      /\ \A task \in InFlight : \A response \in Responses(task.op) :
           ( /\ task.op = "update"
             /\ BagCardinality(pending') < BagCardinality(pending)
             /\ responseOk(response)
             /\ Resolve(task, response) )
           => selectedPatient' = response.body ]_vars

\* C10 amended: a valid updateSelected with a patient selected issues one
\* PUT to /Patient/{id of the selection} whose body is the built resource
\* with that id; on a 2xx response whose body parses to a resource that
\* getPatientName accepts, the selection becomes that resource; on a 2xx
\* response with any other body the update fails and the selection stays.
UpdateReplacesOnParsed2xx ==
  [][ /\ UpdateIssuesPut
      /\ \A task \in InFlight : \A response \in Responses(task.op) :
           ( /\ task.op = "update"
             /\ BagCardinality(pending') < BagCardinality(pending)
             /\ responseOk(response)
             /\ Resolve(task, response) )
           => IF response.body \in ServerPatients /\ response.body.given = "array"
                THEN selectedPatient' = response.body /\ last'.outcome = "success"
                ELSE selectedPatient' = selectedPatient /\ last'.outcome = "failed" ]_vars

\* C10 witness: an update has succeeded and its resource is selected
UpdateSucceeded ==
  /\ last.op = "update"
  /\ last.outcome = "success"
  /\ last.requests = 1
  /\ selectedPatient # Null

\* the operations of the session
Operations == {"create", "get", "search", "load", "update", "delete"}

\* C11: every operation ends by reporting an outcome to the sink and lets no
\* exception escape: an invocation that ends before its request has called
\* the sink, the handling of a response calls the sink at least once more
\* than the invocation had before its request, and no invocation ends by
\* throwing.
EveryOperationReports ==
  [][ /\ (last'.op \in Operations /\ last'.requests = 0)
         => (last'.reports # <<>> /\ last'.outcome # "threw")
      /\ \A task \in InFlight : \A response \in Responses(task.op) :
           Resolve(task, response)
           => /\ last'.outcome # "threw"
              /\ Len(last'.reports) > Len(task.reports) ]_vars

\* a response body that is a Patient resource as FHIR has it
WellFormedPatient(body) == body \in ServerPatients /\ body.given = "array"

\* C12: for fetchById, loadForUpdate and deleteSelected a 404 yields the
\* not-found outcome, every other non-2xx answer and a network error yield
\* the generic failure, and a 2xx answer yields success (for the two reads:
\* a 2xx answer that carries a well-formed resource; delete reads no body);
\* for searchByName a 2xx bundle without entries yields success.
ResponseClassification ==
  [][ \A task \in InFlight : \A response \in Responses(task.op) :
        Resolve(task, response)
        => /\ (task.op \in {"get", "load", "delete"} /\ response.status = 404)
                => last'.outcome = "notfound"
           /\ ( /\ task.op \in {"get", "load", "delete"}
                /\ ~responseOk(response)
                /\ response.status # 404 )
                => last'.outcome = "failed"
           /\ ( /\ task.op \in {"get", "load"}
                /\ responseOk(response)
                /\ WellFormedPatient(response.body) )
                => last'.outcome = "success"
           /\ (task.op = "delete" /\ responseOk(response))
                => last'.outcome = "success"
           /\ ( /\ task.op = "search"
                /\ responseOk(response)
                /\ response.body \in Bundles
                /\ response.body.entries = 0 )
                => last'.outcome = "success" ]_vars

(***************************************************************************)
(* The builder and its fields: createPatientResource applied to field      *)
(* values that break several checks at once, to phone and email texts, and *)
(* to blank optional fields, and applied a second time to the same fields  *)
(* at a later hour.  The clocks are noon of each day in the zone UTC (the   *)
(* hours and zones are those of SpecBuild).                                *)
(***************************************************************************)
\* the text c repeated n times
Rep(c, n) == [i \in 1..n |-> c]

\* "+1 (555) 123-4567"
PhoneExample ==
  <<"+", "1", " ", "(", "5", "5", "5", ")", " ", "1", "2", "3", "-", "4", "5", "6", "7">>

\* "0123"
PhoneLeadingZero == <<"0", "1", "2", "3">>

\* the digits a phone number may have at most
MaxPhoneDigits == 16

\* texts of the phone input
Phones ==
  { <<>>, <<" ">>, <<" ", " ">>, PhoneExample, PhoneLeadingZero,
    <<"1">>, <<"+", "1">>, <<"+">>, <<"0">>, <<"+", "0">>, <<"a">>, <<"1", "a">>,
    <<"a", "1">>, <<"1", "+">>, <<"+", "+", "1">>, <<"-">>, <<"(", "1", ")">>,
    <<" ", "1", " ">>, <<"1", " ", "2">>, <<"9", "0">>,
    Rep("1", MaxPhoneDigits), Rep("1", MaxPhoneDigits + 1),
    <<"+">> \o Rep("1", MaxPhoneDigits), <<"+">> \o Rep("1", MaxPhoneDigits + 1),
    <<"(">> \o Rep("2", MaxPhoneDigits) \o <<")">> }

\* "a@b.co"
EmailExample == <<"a", "@", "b", ".", "c", "o">>

\* texts of the email input
Emails ==
  { <<>>, <<" ">>, EmailExample,
    <<"a", "@", "b">>, <<"a", "b", ".", "c", "o">>, <<"@", "b", ".", "c">>,
    <<"a", "@", ".", "c">>, <<"a", "@", "b", ".">>, <<"a", "@", "@", "b", ".", "c">>,
    <<"a", "@", "b", "@", "c", ".", "d">>, <<"a", " ", "b", "@", "c", ".", "d">>,
    <<"a", "@", "b", " ", ".", "c">>, <<"a", "@", "b", ".", "c", ".", "d">>,
    <<"a", ".", "b", "@", "c", ".", "d">>, <<".", "@", ".", ".", ".">>,
    <<" ">> \o EmailExample, EmailExample \o <<" ">>, <<"a">>, <<"@">>, <<".">> }

\* field values that break none, one or several of the checks
OrderRaws ==
  [ firstName : { <<"A">>, <<" ">> },
    lastName : { <<"L">>, <<>> },
    gender : { <<"f">>, <<" ">> },
    birthDate : { EmptyDate, SpacesDate, InvalidDate } \cup { IsoDate(d) : d \in 0..MaxDay },
    phone : { <<>>, PhoneLeadingZero, PhoneExample },
    email : { <<>>, <<"a", "@", "b">>, EmailExample },
    address : { <<>> } ]

\* valid field values with each text of the phone and of the email input
PhoneRaws == { [ValidRaw EXCEPT !.phone = p] : p \in Phones }

EmailRaws == { [ValidRaw EXCEPT !.email = e] : e \in Emails }

\* valid field values with the optional fields empty, blank or filled
OptionalRaws ==
  { [ValidRaw EXCEPT !.phone = p, !.email = e, !.address = a] :
      p \in { <<>>, <<" ">>, PhoneExample },
      e \in { <<>>, <<" ">>, EmailExample },
      a \in { <<>>, <<" ">>, <<"x">> } }

FieldRaws == OrderRaws \cup PhoneRaws \cup EmailRaws \cup OptionalRaws

\* noon UTC of each day, the caller in the zone UTC
FieldClocks == { [utc |-> d * HoursPerDay + 12, tz |-> 0] : d \in 0..MaxDay }

\* a second call of createPatientResource() with the fields of the first,
\* at the same or a later time
BuildAgain(clock) ==
  /\ last.op = "build"
  /\ clock.utc >= last.clock.utc
  /\ last' = [op |-> "rebuild", raw |-> last.raw, clock |-> clock,
              result |-> createPatientResource(last.raw, clock),
              firstClock |-> last.clock, first |-> last.result]
  /\ UNCHANGED <<selectedPatient, submitButton, pending, baseUrl, deleted>>

NextFields ==
  \/ \E raw \in FieldRaws : \E clock \in FieldClocks : Build(raw, clock)
  \/ \E clock \in FieldClocks : BuildAgain(clock)

SpecFields == Init /\ [][NextFields]_vars

\* a text without whitespace and without "@", not empty
Plain(s) == s # <<>> /\ \A i \in 1..Len(s) : s[i] \notin {" ", "@"}

\* local@domain.tld
EmailShape(s) ==
  \E i \in 1..Len(s) : \E j \in (i + 1)..Len(s) :
     /\ s[i] = "@"
     /\ s[j] = "."
     /\ Plain(SubSeq(s, 1, i - 1))
     /\ Plain(SubSeq(s, i + 1, j - 1))
     /\ Plain(SubSeq(s, j + 1, Len(s)))

\* s without its spaces, hyphens and parentheses
RECURSIVE withoutSeparators(_)
withoutSeparators(s) ==
  IF s = <<>> THEN <<>>
  ELSE IF Head(s) \in {" ", "-", "(", ")"} THEN withoutSeparators(Tail(s))
  ELSE <<Head(s)>> \o withoutSeparators(Tail(s))

\* an optional "+", a digit 1-9, then at most fifteen digits
PhoneShape(s) ==
  \E plus \in 0..1 :
     /\ plus = 1 => (s # <<>> /\ s[1] = "+")
     /\ Len(s) - plus \in 1..MaxPhoneDigits
     /\ s[plus + 1] \in {"1", "2", "3", "4", "5", "6", "7", "8", "9"}
     /\ \A i \in (plus + 2)..Len(s) : s[i] \in Digits

\* the checks of the builder in their order, each with what it reports, and
\* whether the fields break it
Checks(raw, clock) ==
  << [broken |-> IsBlank(raw.firstName), error |-> RequiredFirstName],
     [broken |-> IsBlank(raw.lastName), error |-> RequiredLastName],
     [broken |-> IsBlank(raw.gender), error |-> RequiredGender],
     [broken |-> raw.birthDate.kind \in {"empty", "spaces"}, error |-> RequiredBirthDate],
     [broken |-> raw.birthDate.kind # "date", error |-> InvalidBirthDate],
     [broken |-> raw.birthDate.kind = "date" /\ raw.birthDate.day > localDay(clock),
      error |-> FutureBirthDate],
     [broken |-> ~IsBlank(raw.email) /\ ~EmailShape(trim(raw.email)), error |-> InvalidEmail],
     [broken |-> ~IsBlank(raw.phone) /\ ~PhoneShape(withoutSeparators(raw.phone)),
      error |-> InvalidPhone] >>

\* C13: the builder reports the first check, in the order firstName,
\* lastName, gender, birthDate present, birthDate parseable, birthDate not in
\* the future, email, phone, that the fields break, and nothing else; it
\* returns a resource exactly when they break none.
FirstFailureWins ==
  last.op = "build"
  => LET checks == Checks(last.raw, last.clock)
         broken == { i \in 1..Len(checks) : checks[i].broken }
     IN  IF broken = {}
           THEN last.result.patient # Null /\ last.result.error = ""
           ELSE /\ last.result.patient = Null
                /\ \E i \in broken :
                     /\ \A j \in broken : i <= j
                     /\ last.result.error = checks[i].error

\* C13 witness: fields that break the checks of the gender, of the date and
\* of the phone have been refused for the gender
SeveralChecksBroken ==
  /\ last.op = "build"
  /\ Cardinality({ i \in 1..8 : Checks(last.raw, last.clock)[i].broken }) >= 3
  /\ last.result.error = RequiredGender

\* C14: with the other fields valid, a blank phone is accepted, and a phone
\* that is not blank is accepted exactly when, its spaces, hyphens and
\* parentheses removed, it is an optional "+", a digit 1-9 and at most
\* fifteen further digits, and is refused with the phone error otherwise;
\* "+1 (555) 123-4567" is accepted, "0123" and every text of more than 16
\* digits are refused.
PhoneAccepted ==
  (last.op = "build" /\ last.raw \in PhoneRaws)
  => LET phone == last.raw.phone
         accepted == last.result.patient # Null
         refused == last.result.patient = Null /\ last.result.error = InvalidPhone
     IN  /\ IsBlank(phone) => accepted
         /\ ~IsBlank(phone)
              => IF PhoneShape(withoutSeparators(phone)) THEN accepted ELSE refused
         /\ phone = PhoneExample => accepted
         /\ phone = PhoneLeadingZero => refused
         /\ Len(SelectSeq(phone, LAMBDA c : c \in Digits)) > MaxPhoneDigits => refused

\* C14 witness: "+1 (555) 123-4567" has been accepted
PhoneExampleAccepted ==
  /\ last.op = "build"
  /\ last.raw = [ValidRaw EXCEPT !.phone = PhoneExample]
  /\ last.result.patient # Null

\* C15 as stated: with the other fields valid, a blank email is accepted,
\* and an email that is not blank is refused with the email error unless the
\* text has the shape local@domain.tld; "a@b.co" is accepted.
EmailShapeOfText ==
  (last.op = "build" /\ last.raw \in EmailRaws)
  => LET email == last.raw.email
     IN  /\ IsBlank(email) => last.result.patient # Null
         /\ (~IsBlank(email) /\ ~EmailShape(email))
              => (last.result.patient = Null /\ last.result.error = InvalidEmail)
         /\ email = EmailExample => last.result.patient # Null

\* C15 amended: with the other fields valid, a blank email is accepted, and
\* an email that is not blank is refused with the email error unless the
\* text, the whitespace at its two ends removed, has the shape
\* local@domain.tld, and then it is accepted; "a@b.co" is accepted.
EmailShapeOfTrimmedText ==
  (last.op = "build" /\ last.raw \in EmailRaws)
  => LET email == last.raw.email
     IN  /\ IsBlank(email) => last.result.patient # Null
         /\ ~IsBlank(email)
              => IF EmailShape(trim(email))
                   THEN last.result.patient # Null
                   ELSE last.result.patient = Null /\ last.result.error = InvalidEmail
         /\ email = EmailExample => last.result.patient # Null

\* C15 witness: an email without a dot after the "@" has been refused
EmailRefused ==
  /\ last.op = "build"
  /\ last.raw = [ValidRaw EXCEPT !.email = <<"a", "@", "b">>]
  /\ last.result.error = InvalidEmail

\* the telecom entries and the address the claim expects for the fields
expectedTelecom(raw) ==
  (IF IsBlank(raw.phone) THEN <<>>
     ELSE << [system |-> "phone", value |-> raw.phone, use |-> "home"] >>)
  \o
  (IF IsBlank(raw.email) THEN <<>>
     ELSE << [system |-> "email", value |-> raw.email, use |-> "home"] >>)

\* C16: in a resource the builder returns, telecom holds a phone entry
\* exactly when the phone is not blank and an email entry exactly when the
\* email is not blank, the phone first, each with use "home"; address is the
\* one entry {use "home", type "both", text} exactly when the address is not
\* blank, and is absent otherwise.
OptionalFieldsFollowBlank ==
  (last.op = "build" /\ last.result.patient # Null)
  => LET patient == last.result.patient
     IN  /\ patient.telecom = expectedTelecom(last.raw)
         /\ IF IsBlank(last.raw.address)
              THEN "address" \notin DOMAIN patient
              ELSE /\ "address" \in DOMAIN patient
                   /\ patient.address =
                        << [use |-> "home", type |-> "both", text |-> last.raw.address] >>

bornAfter(raw, clock) ==
  raw.birthDate.kind = "date" /\ raw.birthDate.day * HoursPerDay > clock.utc

UrlInputs == { <<>>, <<"h">>, <<"h", "/">>, <<"h", "/", "/">> }

\* the constructor on a page whose input fhirServerUrl holds `value`
InitUrl ==
  /\ selectedPatient = Null
  /\ submitButton = "create"
  /\ pending = EmptyBag
  /\ last = [op |-> "init", outcome |-> "none", requests |-> 0, reports |-> <<>>]
  /\ \E value \in UrlInputs : baseUrl = updateServerUrl(DefaultBaseUrl, value)
  /\ deleted = {}

\* the change listener of the input fhirServerUrl: updateServerUrl()
UpdateServerUrl(value) ==
  /\ baseUrl' = updateServerUrl(baseUrl, value)
  /\ IF value # <<>>
       THEN Finish("url", "success", 0, <<"info">>)
       ELSE Finish("url", "none", 0, <<>>)
  /\ UNCHANGED <<selectedPatient, submitButton, pending, deleted>>

NextUrl ==
  \/ Next(FALSE)
  \/ \E value \in UrlInputs : UpdateServerUrl(value)

SpecUrl == InitUrl /\ [][NextUrl]_vars

\* C18: the stored baseUrl never ends in a slash, and no request of the
\* session is sent to a URL with a slash at the end of its base, so that one
\* slash stands before "Patient".
NoTrailingSlash ==
  /\ baseUrl # <<>>
  /\ baseUrl[Len(baseUrl)] # "/"
  /\ \A task \in InFlight : task.request.url[Len(task.request.url)] # "/"

\* C19: every invocation of an operation calls the sink twice: once with an
\* informational message at its start and once for its terminal outcome.
StartAndTerminalReport ==
  last.op \in Operations
  => /\ Len(last.reports) = 2
     /\ last.reports[1] = "info"
     /\ last.reports[2] \in {"info", "error", "success"}

\* the selection is no patient the server has confirmed deleted
SelectionNotDeleted == selectedPatient = Null \/ selectedPatient.id \notin deleted

\* the answer is one a server gives to the request: a created patient has an
\* id that was not deleted before, a read or updated patient the id of the
\* request
answersRequest(task, response) ==
  response.body \in ServerPatients
  => CASE task.op = "create" -> response.body.id \notin deleted
       [] task.op = "update" -> response.body.id = task.request.body.id
       [] task.op \in {"get", "load"} -> response.body.id = task.request.path[2]
       [] OTHER -> TRUE

\* C20: once a delete of X has been answered 2xx, the selection is no
\* patient with the id X until a loadForUpdate of X succeeds: no step of the
\* session, the handling of a server's answer to a request that was in
\* flight included, makes the selection a patient confirmed deleted or
\* leaves such a patient selected.
DeletedNeverSelected ==
  [][ /\ SelectionNotDeleted
      /\ \A task \in InFlight : \A response \in Responses(task.op) :
           Resolve(task, response) => answersRequest(task, response)
      => SelectionNotDeleted' ]_vars

\* C21: clearForm, the form being present, puts the submit button in create
\* mode, sets the selection to none, reports "Form cleared" to the sink and
\* returns without an exception, a patient being selected before or not.
ClearFormReturns ==
  [][ ClearForm
      => /\ submitButton' = "create"
         /\ selectedPatient' = Null
         /\ last'.op = "clear"
         /\ last'.outcome # "threw"
         /\ last'.reports # <<>>
         /\ last'.reports[Len(last'.reports)] = "info" ]_vars

====
